---- MODULE Spec2Model ----
(***************************************************************************)
(* The faucet server: the cooldown store (sentMemory), its sweep timer and *)
(* the POST /faucet/:token/:address handler, as a state machine.           *)
(*                                                                         *)
(*   Spec     the variant with the sweep and two wallets (unnamed/part_000)*)
(*   FairSpec Spec, with every awaited chain call eventually settling      *)
(*   Spec001  the earlier variant with a cooldown store (unnamed/part_001) *)
(*                                                                         *)
(* Strings are sequences of characters, so that the address pattern is     *)
(* computed on the text.  JavaScript values are records [type, val].       *)
(***************************************************************************)
EXTENDS Integers, Sequences, FiniteSets, TLC

\* ------------------------------------------------------------ bounds
\* Requests received in one run.
MaxReq == 2
\* Clock advances in one run.
MaxTicks == 1
\* Clock steps of the run with the punctual sweep timer.
MaxPunctualTicks == 2

\* ------------------------------------------------------------ constants
\* 24 * 60 * 60 * 1000, the cooldown window and the sweep period, in ms.
DAY == 24 * 60 * 60 * 1000
\* The number of hexadecimal characters the address pattern asks for.
HexLen == 40
\* Date.now() when the process starts.
StartTime == 1

\* ------------------------------------------------------------ strings
ETH == <<"E", "T", "H">>
EDG == <<"E", "D", "G">>
USDC == <<"U", "S", "D", "C">>
DOGE == <<"D", "O", "G", "E">>
CONSTRUCTOR == <<"c", "o", "n", "s", "t", "r", "u", "c", "t", "o", "r">>

HexChars ==
    {"0", "1", "2", "3", "4", "5", "6", "7", "8", "9",
     "a", "b", "c", "d", "e", "f", "A", "B", "C", "D", "E", "F"}

\* /^0x[a-fA-F0-9]{40}$/.test(s), after the `req.params.address &&` guard.
AddressPattern(s) ==
    /\ Len(s) > 0
    /\ Len(s) = HexLen + 2
    /\ s[1] = "0"
    /\ s[2] = "x"
    /\ \A i \in 3..(HexLen + 2) : s[i] \in HexChars

\* Request inputs: a well-formed address, a second one in upper-case hex,
\* one a character short, and one with a non-hex character.
AddrA == <<"0", "x">> \o [i \in 1..HexLen |-> "a"]
AddrB == <<"0", "x">> \o [i \in 1..HexLen |-> IF i % 2 = 0 THEN "F" ELSE "9"]
AddrShort == <<"0", "x">> \o [i \in 1..(HexLen - 1) |-> "a"]
AddrNonHex == <<"0", "x">> \o [i \in 1..HexLen |-> IF i = HexLen THEN "g" ELSE "a"]

Addresses == {AddrA, AddrShort}
Tokens == {ETH, EDG, USDC, DOGE, CONSTRUCTOR}
\* part_001 is driven with an address that names a property of Object.prototype too.
Addresses001 == {AddrA, AddrShort, CONSTRUCTOR}
Tokens001 == {ETH, USDC, DOGE}

\* ------------------------------------------------------------ JavaScript values
Undefined == [type |-> "undefined", val |-> 0]
Function == [type |-> "function", val |-> 0]
Object == [type |-> "object", val |-> 0]
TypeError == [type |-> "TypeError", val |-> 0]
Num(n) == [type |-> "number", val |-> n]

\* ToBoolean: undefined and 0 are falsy; objects, functions, other numbers truthy.
Truthy(v) ==
    \/ v.type \in {"function", "object"}
    \/ v.type = "number" /\ v.val # 0

\* v <= n for a number n: a function or undefined converts to NaN, and NaN <= n is false.
LessEq(v, n) == v.type = "number" /\ v.val <= n

\* The property names every object literal inherits from Object.prototype
\* (the one among them that the request inputs contain).
ObjectPrototypeKeys == {CONSTRUCTOR}

\* key in obj: own or inherited.
HasProperty(obj, key) == key \in DOMAIN obj \/ key \in ObjectPrototypeKeys

\* f with key set to v (object spread plus a computed key, or an assignment).
With(f, key, v) == [k \in DOMAIN f \cup {key} |-> IF k = key THEN v ELSE f[k]]

\* f without the keys outside keep (delete).
Restrict(f, keep) == [k \in keep |-> f[k]]

\* The empty object {}.
Empty == [k \in {} |-> 0]

VARIABLES
    now,        \* Date.now()
    ticks,      \* clock advances so far
    sentMemory, \* address -> (token -> timestamp), own properties only
    sweepDue,   \* the time the sweep timer fires next
    reqs,       \* the requests received, in order of arrival
    chain       \* the transactions submitted, in order

vars == <<now, ticks, sentMemory, sweepDue, reqs, chain>>

\* ------------------------------------------------------------ the cooldown store
\* sentMemory[address]: the own object, else what Object.prototype gives.
MemoryOf(mem, address) ==
    IF address \in DOMAIN mem THEN Object
    ELSE IF address \in ObjectPrototypeKeys THEN Function
    ELSE Undefined

\* sentMemory[address][tokenName], for a sentMemory[address] that is not undefined.
TimestampOf(mem, address, tokenName) ==
    IF address \in DOMAIN mem /\ tokenName \in DOMAIN mem[address]
        THEN Num(mem[address][tokenName])
    ELSE IF tokenName \in ObjectPrototypeKeys THEN Function
    ELSE Undefined

\* part_000: if (sentMemory[address] && sentMemory[address][tokenName]) return it.
getLastSentTimeStamp(mem, address, tokenName) ==
    IF Truthy(MemoryOf(mem, address)) /\ Truthy(TimestampOf(mem, address, tokenName))
        THEN TimestampOf(mem, address, tokenName)
        ELSE Undefined

\* part_001: if (sentMemory[address][tokenName]) return it; reading a property
\* of undefined throws a TypeError.
getLastSentTimeStamp001(mem, address, tokenName) ==
    IF MemoryOf(mem, address) = Undefined THEN TypeError
    ELSE IF Truthy(TimestampOf(mem, address, tokenName))
        THEN TimestampOf(mem, address, tokenName)
        ELSE Undefined

\* The own enumerable properties of sentMemory[address] that the spread copies.
OwnOf(mem, address) == IF address \in DOMAIN mem THEN mem[address] ELSE Empty

\* The else branch left out: an address without an entry gets none.
setLastSentTimeStamp_NoCreate(mem, address, token, t) ==
    IF Truthy(MemoryOf(mem, address))
        THEN With(mem, address, With(OwnOf(mem, address), token, t))
        ELSE mem

\* The spread written last, { [token]: Date.now(), ...own }: an old timestamp wins.
setLastSentTimeStamp_SpreadLast(mem, address, token, t) ==
    IF Truthy(MemoryOf(mem, address))
        THEN IF token \in DOMAIN OwnOf(mem, address)
             THEN mem
             ELSE With(mem, address, With(OwnOf(mem, address), token, t))
        ELSE With(mem, address, With(Empty, token, t))

\* The spread left out, sentMemory[address] = { [token]: Date.now() }: the
\* address loses its other tokens.
setLastSentTimeStamp_NoSpread(mem, address, token, t) ==
    With(mem, address, With(Empty, token, t))

\* Both branches build { ...own, [token]: Date.now() }.
setLastSentTimeStamp(mem, address, token, t) ==
    IF Truthy(MemoryOf(mem, address))
        THEN With(mem, address, With(OwnOf(mem, address), token, t))
        ELSE With(mem, address, With(Empty, token, t))

\* The interval callback: delete every token whose timestamp <= Date.now() - 24h.
\* Deleting during for-in skips nothing that stays; emptied objects remain.
\* The comparison written with <: an entry exactly 24h old stays.
SweepExpired_Strict(ts, t) == ts < t - DAY

\* The sweep's window written as 48h.
SweepExpired_TwoDays(ts, t) == ts <= t - 2 * DAY

SweepExpired(ts, t) == ts <= t - DAY

\* delete sentMemory[address] instead of the token: an address with one expired
\* token loses all of its tokens.
sweep_WholeAddress(mem, t) ==
    [a \in DOMAIN mem |->
        IF \E k \in DOMAIN mem[a] : SweepExpired(mem[a][k], t)
        THEN Empty ELSE mem[a]]

sweep(mem, t) ==
    [a \in DOMAIN mem |->
        Restrict(mem[a], {k \in DOMAIN mem[a] : ~SweepExpired(mem[a][k], t)})]

\* ------------------------------------------------------------ the token registry
supportedTokens ==
    [k \in {ETH, USDC, EDG} |->
        IF k = USDC
            THEN [faucetAmount |-> "0x25AF080", contract |-> "jhkToken"]
            ELSE [faucetAmount |-> "5000000000000000000", contract |-> "undefined"]]

\* part_001's registry: no EDG, one amount.
supportedTokens001 ==
    [k \in {ETH, USDC} |->
        [faucetAmount |-> "0x1312D00",
         contract |-> IF k = USDC THEN "jhkToken" ELSE "undefined"]]

NoConfig == [defined |-> FALSE, faucetAmount |-> "", contract |-> "undefined"]

\* switch (tokenName) { case 'USDC': return supportedTokens.USDC; default: return undefined }
getContract(tokenName) ==
    IF tokenName = USDC
        THEN [defined |-> TRUE,
              faucetAmount |-> supportedTokens[USDC].faucetAmount,
              contract |-> supportedTokens[USDC].contract]
        ELSE NoConfig

getContract001(tokenName) ==
    IF tokenName = USDC
        THEN [defined |-> TRUE,
              faucetAmount |-> supportedTokens001[USDC].faucetAmount,
              contract |-> supportedTokens001[USDC].contract]
        ELSE NoConfig

\* tokenName === 'ETH' ? ethersWallet : tokenName === 'EDG' ? edgWallet : undefined
WalletOf(tokenName) ==
    IF tokenName = ETH THEN "ethersWallet"
    ELSE IF tokenName = EDG THEN "edgWallet"
    ELSE "undefined"

\* ------------------------------------------------------------ response bodies
\* A response body: the template literal of the code and what fills it.
Msg(tmpl, amount, token, hash, text) ==
    [tmpl |-> tmpl, amount |-> amount, token |-> token, hash |-> hash, text |-> text]

SentWithHash(amount, token, hash) ==
    Msg("Sent ${amount} ${token} TX hash: ${tx.hash}.", amount, token, hash, "")
SentNoHash(amount, token) == Msg("Sent ${amount} ${token}.", amount, token, "", "")
UnsupportedToken(token) == Msg("Unsupported token ${token}.", "", token, "", "")
TokenUnsupported == Msg("Token unsupported.", "", <<>>, "", "")
InvalidAddress == Msg("Invalid address", "", <<>>, "", "")
AlreadyReceived == Msg("Have already recieved tokens in last 24 hours.", "", <<>>, "", "")
AlreadyReceived001 == Msg("Have already recieved tokens in last 24", "", <<>>, "", "")
ErrMessage(text) == Msg("${err.message}", "", <<>>, "", text)

\* ------------------------------------------------------------ the chain
\* How an awaited submission settles: a pending transaction with a hash, or an
\* error with a message.
Submitted == [ok |-> TRUE, hash |-> "0xhash", message |-> ""]
Failed == [ok |-> FALSE, hash |-> "", message |-> "insufficient funds"]
Outcomes == {Submitted, Failed}
NoOutcome == [ok |-> FALSE, hash |-> "", message |-> ""]

Tx(id, via, to, value) == [req |-> id, via |-> via, to |-> to, value |-> value]

\* ------------------------------------------------------------ the handler
\* The window written in seconds: the factor 1000 left out.
CooldownPassed_Seconds(lastSent, t) ==
    ~Truthy(lastSent) \/ LessEq(lastSent, t - 24 * 60 * 60)

\* if (!lastSent || lastSent <= Date.now() - 24 * 60 * 60 * 1000)
CooldownPassed(lastSent, t) == ~Truthy(lastSent) \/ LessEq(lastSent, t - DAY)

Step(pc, res, tx) == [pc |-> pc, res |-> res, tx |-> tx]

\* The handler from the registry test to its first await or its response.
\* sentNativeTokens runs up to `await wallet.sendTransaction(...)`, the contract
\* branch up to `await token.contract.transfer(...)`: the call is made, the
\* handler is suspended.
Dispatch(id, address, token) ==
    IF HasProperty(supportedTokens, token)
    THEN IF AddressPattern(address)
         THEN IF token \in {ETH, EDG}
              THEN IF WalletOf(token) # "undefined"
                   THEN Step("awaitNative", <<>>,
                             <<Tx(id, WalletOf(token), address,
                                  supportedTokens[token].faucetAmount)>>)
                   ELSE Step("done", <<TokenUnsupported>>, <<>>)
              ELSE IF getContract(token).defined /\ getContract(token).contract # "undefined"
                   THEN Step("awaitContract", <<>>,
                             <<Tx(id, getContract(token).contract, address,
                                  getContract(token).faucetAmount)>>)
                   ELSE Step("done", <<UnsupportedToken(token)>>, <<>>)
         ELSE Step("done", <<InvalidAddress>>, <<>>)
    ELSE Step("done", <<UnsupportedToken(token)>>, <<>>)

\* What the handler's continuation does once the awaited call has settled:
\* the responses it sends, and whether its own promise rejects.
End(res, rejected) == [res |-> res, rejected |-> rejected]

\* Without the try/catch: a failed sendTransaction rejects the handler's promise.
sentNativeTokens_NoCatch(tokenName, outcome) ==
    IF outcome.ok
        THEN End(<<SentWithHash(supportedTokens[tokenName].faucetAmount, tokenName,
                                outcome.hash)>>, FALSE)
        ELSE End(<<>>, TRUE)

\* sentNativeTokens after the await: the success text, or in its catch err.message;
\* the handler sends whatever it returns.
sentNativeTokens(tokenName, outcome) ==
    IF outcome.ok
        THEN End(<<SentWithHash(supportedTokens[tokenName].faucetAmount, tokenName,
                                outcome.hash)>>, FALSE)
        ELSE End(<<ErrMessage(outcome.message)>>, FALSE)

\* A catch that swallows the error and sends nothing.
contractTransfer_SilentCatch(tokenName, outcome) ==
    IF outcome.ok
        THEN End(<<SentNoHash(getContract(tokenName).faucetAmount, tokenName)>>, FALSE)
        ELSE End(<<>>, FALSE)

\* try { await token.contract.transfer(...); res.send(`Sent ...`) }
\* catch (err) { res.send(err.message) }
contractTransfer(tokenName, outcome) ==
    IF outcome.ok
        THEN End(<<SentNoHash(getContract(tokenName).faucetAmount, tokenName)>>, FALSE)
        ELSE End(<<ErrMessage(outcome.message)>>, FALSE)

\* setLastSentTimeStamp called before the cooldown test instead of inside it.
RecordOnPass_Always(passed, mem, address, token, t) ==
    setLastSentTimeStamp(mem, address, token, t)

\* if (!lastSent || lastSent <= Date.now() - 24h) { setLastSentTimeStamp(...); ... }
RecordOnPass(passed, mem, address, token, t) ==
    IF passed THEN setLastSentTimeStamp(mem, address, token, t) ELSE mem

\* The requests suspended at an await.
Awaiting == {r \in 1..Len(reqs) : reqs[r].pc \in {"awaitNative", "awaitContract"}}

\* The pair's own timestamp in the store, if it has one.
Recorded(mem, address, token) ==
    address \in DOMAIN mem /\ token \in DOMAIN mem[address]

Request(address, token, lastSent, passed, step) ==
    [address |-> address, token |-> token, at |-> now,
     lastSent |-> lastSent,
     recorded |-> Recorded(sentMemory, address, token),
     recordedAt |-> IF Recorded(sentMemory, address, token)
                    THEN sentMemory[address][token] ELSE 0,
     passed |-> passed, pc |-> step.pc, res |-> step.res,
     outcome |-> NoOutcome, inflight |-> Awaiting]

\* ------------------------------------------------------------ part_000
Init ==
    /\ now = StartTime
    /\ ticks = 0
    /\ sentMemory = Empty
    /\ sweepDue = StartTime + DAY
    /\ reqs = <<>>
    /\ chain = <<>>

\* POST /faucet/:token/:address arrives: the handler runs to its response or
\* to its first await.
Receive(address, token) ==
    /\ Len(reqs) < MaxReq
    /\ LET id == Len(reqs) + 1
           lastSent == getLastSentTimeStamp(sentMemory, address, token)
           passed == CooldownPassed(lastSent, now)
           step == IF passed THEN Dispatch(id, address, token)
                   ELSE Step("done", <<AlreadyReceived>>, <<>>)
       IN /\ sentMemory' = RecordOnPass(passed, sentMemory, address, token, now)
          /\ reqs' = Append(reqs, Request(address, token, lastSent, passed, step))
          /\ chain' = chain \o step.tx
    /\ UNCHANGED <<now, ticks, sweepDue>>

\* A catch block that sends the failed transaction again.
CatchSubmits_Retry(r, outcome) ==
    IF outcome.ok THEN <<>> ELSE SelectSeq(chain, LAMBDA tx : tx.req = r)

\* What the continuation submits once the awaited call has settled: neither the
\* success path nor the catch blocks (return err.message; res.send(err.message))
\* call sendTransaction or transfer again.
CatchSubmits(r, outcome) == <<>>

\* A catch block that deletes the pair's timestamp when the transfer failed.
StoreAfterSettle_Rollback(mem, r, outcome) ==
    IF outcome.ok \/ ~Recorded(mem, reqs[r].address, reqs[r].token) THEN mem
    ELSE With(mem, reqs[r].address,
              Restrict(mem[reqs[r].address],
                       DOMAIN mem[reqs[r].address] \ {reqs[r].token}))

\* The store once the awaited call has settled: nothing after the await writes
\* sentMemory, on success or in a catch block.
StoreAfterSettle(mem, r, outcome) == mem

Settle(r, outcome, end) ==
    /\ reqs' = [reqs EXCEPT ![r].pc = IF end.rejected THEN "rejected" ELSE "done",
                            ![r].res = @ \o end.res,
                            ![r].outcome = outcome]
    /\ chain' = chain \o CatchSubmits(r, outcome)
    /\ sentMemory' = StoreAfterSettle(sentMemory, r, outcome)
    /\ UNCHANGED <<now, ticks, sweepDue>>

\* wallet.sendTransaction settles and the handler resumes.
ResumeNative(r, outcome) ==
    /\ r \in 1..Len(reqs)
    /\ reqs[r].pc = "awaitNative"
    /\ Settle(r, outcome, sentNativeTokens(reqs[r].token, outcome))

\* contract.transfer settles and the handler resumes.
ResumeContract(r, outcome) ==
    /\ r \in 1..Len(reqs)
    /\ reqs[r].pc = "awaitContract"
    /\ Settle(r, outcome, contractTransfer(reqs[r].token, outcome))

\* The setInterval callback, every 24h; a timer never fires early.
Sweep ==
    /\ now >= sweepDue
    /\ sentMemory' = sweep(sentMemory, now)
    /\ sweepDue' = now + DAY
    /\ UNCHANGED <<now, ticks, reqs, chain>>

\* Time passes: a millisecond, a day less a millisecond, or a day.
Steps == {1, DAY - 1, DAY}

Tick(d) ==
    /\ ticks < MaxTicks
    /\ now' = now + d
    /\ ticks' = ticks + 1
    /\ UNCHANGED <<sentMemory, sweepDue, reqs, chain>>

Next ==
    \/ \E a \in Addresses, t \in Tokens : Receive(a, t)
    \/ \E r \in 1..MaxReq, o \in Outcomes : ResumeNative(r, o)
    \/ \E r \in 1..MaxReq, o \in Outcomes : ResumeContract(r, o)
    \/ Sweep
    \/ \E d \in Steps : Tick(d)

Spec == Init /\ [][Next]_vars

\* The server with a timer that fires on time: the clock does not pass the
\* moment the sweep is due before the sweep has run.  Requests of one address
\* for a native and a contract token fill the store.
PunctualTokens == {ETH, USDC}

TickPunctual(d) ==
    /\ ticks < MaxPunctualTicks
    /\ now + d <= sweepDue
    /\ now' = now + d
    /\ ticks' = ticks + 1
    /\ UNCHANGED <<sentMemory, sweepDue, reqs, chain>>

NextPunctual ==
    \/ \E t \in PunctualTokens : Receive(AddrA, t)
    \/ \E r \in 1..MaxReq, o \in Outcomes : ResumeNative(r, o)
    \/ \E r \in 1..MaxReq, o \in Outcomes : ResumeContract(r, o)
    \/ Sweep
    \/ \E d \in Steps : TickPunctual(d)

SpecPunctual == Init /\ [][NextPunctual]_vars

\* Every awaited chain call settles, by success or by failure.
FairSpec ==
    /\ Spec
    /\ \A r \in 1..MaxReq :
        /\ WF_vars(\E o \in Outcomes : ResumeNative(r, o))
        /\ WF_vars(\E o \in Outcomes : ResumeContract(r, o))

\* ------------------------------------------------------------ part_001
\* The registry test to the first await or the response, in part_001: one
\* wallet, a fixed native amount (ethers.utils.parseEther("1.0")), no try/catch.
Dispatch001(id, address, token) ==
    IF HasProperty(supportedTokens001, token)
    THEN IF AddressPattern(address)
         THEN IF token = ETH
              THEN Step("awaitNative", <<>>,
                        <<Tx(id, "ethersWallet", address, "1000000000000000000")>>)
              ELSE IF getContract001(token).defined
                   THEN Step("awaitContract", <<>>,
                             <<Tx(id, getContract001(token).contract, address,
                                  getContract001(token).faucetAmount)>>)
                   ELSE Step("done", <<UnsupportedToken(token)>>, <<>>)
         ELSE Step("done", <<InvalidAddress>>, <<>>)
    ELSE Step("done", <<UnsupportedToken(token)>>, <<>>)

\* The part_001 handler: a TypeError in getLastSentTimeStamp rejects the
\* handler's promise before anything is recorded or sent.
Receive001(address, token) ==
    /\ Len(reqs) < MaxReq
    /\ LET id == Len(reqs) + 1
           lastSent == getLastSentTimeStamp001(sentMemory, address, token)
           thrown == lastSent = TypeError
           passed == ~thrown /\ CooldownPassed(lastSent, now)
           step == IF thrown THEN Step("rejected", <<>>, <<>>)
                   ELSE IF passed THEN Dispatch001(id, address, token)
                   ELSE Step("done", <<AlreadyReceived001>>, <<>>)
       IN /\ sentMemory' = RecordOnPass(passed, sentMemory, address, token, now)
          /\ reqs' = Append(reqs, Request(address, token, lastSent, passed, step))
          /\ chain' = chain \o step.tx
    /\ UNCHANGED <<now, ticks, sweepDue>>

\* part_001 has no sweep.  No request of it reaches an await (NoAwait001): an
\* address that passes getLastSentTimeStamp on a store without it is a property
\* name of Object.prototype and fails the address pattern, so the store never
\* holds a well-formed address.
Next001 ==
    \/ \E a \in Addresses001, t \in Tokens001 : Receive001(a, t)
    \/ \E d \in Steps : Tick(d)

Spec001 == Init /\ [][Next001]_vars

NoAwait001 == Awaiting = {} /\ chain = <<>>

\* ------------------------------------------------------------ shared by the claims
Handled == 1..Len(reqs)

SamePair(i, j) ==
    reqs[i].address = reqs[j].address /\ reqs[i].token = reqs[j].token

\* Request r has submitted a transaction (wallet.sendTransaction or contract.transfer).
Submits(r) == \E k \in 1..Len(chain) : chain[k].req = r

InRegistry(token) == token \in DOMAIN supportedTokens

TypeOK ==
    /\ now \in Nat /\ ticks \in Nat /\ sweepDue \in Nat
    /\ Len(reqs) <= MaxReq
    /\ \A r \in Handled : reqs[r].pc \in {"awaitNative", "awaitContract", "done", "rejected"}

\* ------------------------------------------------------------ the claims

\* C1: once a request for a pair has passed the cooldown check at time T, every
\* later request for the same pair arriving before T + 24h is answered with
\* the already-received message and submits no transaction.
C1_CooldownWindowHolds ==
    \A i \in Handled, j \in Handled :
        (i < j /\ SamePair(i, j) /\ reqs[i].passed /\ reqs[j].at < reqs[i].at + DAY)
            => /\ ~reqs[j].passed
               /\ reqs[j].res = <<AlreadyReceived>>
               /\ ~Submits(j)

\* A request one millisecond before the end of the window of an accepted one.
C1_Witness ==
    \E i \in Handled, j \in Handled :
        /\ i < j /\ SamePair(i, j) /\ reqs[i].passed
        /\ reqs[j].at = reqs[i].at + DAY - 1
        /\ reqs[j].res = <<AlreadyReceived>>

\* C2, as claimed: a request arriving while an earlier request for the same
\* pair is suspended at its await passes the cooldown check and submits too.
C2_SecondPassesWhileFirstSuspended ==
    \A i \in Handled, j \in Handled :
        (SamePair(i, j) /\ i \in reqs[j].inflight)
            => reqs[j].passed /\ Submits(j)

\* C2, amended: the timestamp is read and written before the handler's first
\* await, so a suspended request's pair is on record while its window lasts,
\* and a request for the same pair arriving meanwhile, less than 24h after the
\* suspended one was accepted, is rejected and submits nothing.
C2_CheckAndRecordBeforeAwait ==
    /\ \A r \in Awaiting :
        now < reqs[r].at + DAY
            => /\ Recorded(sentMemory, reqs[r].address, reqs[r].token)
               /\ sentMemory[reqs[r].address][reqs[r].token] >= reqs[r].at
    /\ \A i \in Handled, j \in Handled :
        (SamePair(i, j) /\ i \in reqs[j].inflight /\ reqs[j].at < reqs[i].at + DAY)
            => /\ ~reqs[j].passed
               /\ reqs[j].res = <<AlreadyReceived>>
               /\ ~Submits(j)

\* A request rejected while the earlier request for its pair is still suspended.
C2_Witness ==
    \E i \in Awaiting, j \in Handled :
        /\ SamePair(i, j) /\ i \in reqs[j].inflight
        /\ reqs[j].res = <<AlreadyReceived>>

\* C3: handling a request for a token that is not in the registry leaves the
\* cooldown store unchanged.
C3_UnsupportedTokenLeavesStore ==
    [][\A a \in Addresses, t \in Tokens :
        (Receive(a, t) /\ ~InRegistry(t)) => sentMemory' = sentMemory]_vars

\* C4: a request whose address fails the pattern submits no transaction and is
\* answered with the invalid-address message, whatever the store and the token.
C4_InvalidAddressReported ==
    \A r \in Handled :
        ~AddressPattern(reqs[r].address)
            => reqs[r].res = <<InvalidAddress>> /\ ~Submits(r)

\* C5: a request whose token is absent from the registry submits no
\* transaction and is answered with the unsupported-token message, whatever
\* the store.
C5_UnsupportedTokenReported ==
    \A r \in Handled :
        ~InRegistry(reqs[r].token)
            => reqs[r].res = <<UnsupportedToken(reqs[r].token)>> /\ ~Submits(r)

\* C6: when the chain call of a request fails, native or contract, the
\* handler answers with the failure's message text and its promise does not
\* reject; no handler's promise ever rejects.
C6_FailureCaught ==
    \A r \in Handled :
        /\ reqs[r].pc # "rejected"
        /\ reqs[r].outcome = Failed
            => reqs[r].pc = "done" /\ reqs[r].res = <<ErrMessage(Failed.message)>>

\* A failed native transfer and a failed contract transfer, both answered.
C6_Witness ==
    \E i \in Handled, j \in Handled :
        /\ reqs[i].token \in {ETH, EDG} /\ reqs[i].outcome = Failed
        /\ reqs[j].token = USDC /\ reqs[j].outcome = Failed
        /\ reqs[i].res = <<ErrMessage(Failed.message)>>
        /\ reqs[j].res = <<ErrMessage(Failed.message)>>

\* C7: a request passes the cooldown check exactly when its pair has no
\* recorded timestamp or now - lastSent >= 24h.
C7_EligibleIffCooledDown ==
    \A r \in Handled :
        reqs[r].passed
            <=> (~reqs[r].recorded \/ reqs[r].at - reqs[r].recordedAt >= DAY)

\* What does hold of the cooldown check: for a token that names no member of
\* Object.prototype the boundary is inclusive, as C7 says.
CooldownBoundary ==
    \A r \in Handled :
        reqs[r].token \notin ObjectPrototypeKeys
            => (reqs[r].passed
                <=> (~reqs[r].recorded \/ reqs[r].at - reqs[r].recordedAt >= DAY))

\* A request accepted exactly 24h after the pair's recorded timestamp.
CooldownBoundaryReached ==
    \E r \in Handled :
        reqs[r].recorded /\ reqs[r].at - reqs[r].recordedAt = DAY /\ reqs[r].passed

\* C8: every request received gets exactly one response once its awaited
\* chain call has settled; none gets two, none ends without one, and no
\* handler's promise rejects.
C8_ExactlyOneResponse ==
    /\ \A r \in 1..MaxReq :
        (r <= Len(reqs))
            ~> (r <= Len(reqs) /\ reqs[r].pc = "done" /\ Len(reqs[r].res) = 1)
    /\ [](\A r \in Handled :
            /\ Len(reqs[r].res) <= 1
            /\ reqs[r].pc # "rejected"
            /\ reqs[r].pc = "done" => Len(reqs[r].res) = 1)

\* A request that was suspended and a request answered at once, each with
\* its one response.
C8_Witness ==
    \E i \in Handled, j \in Handled :
        /\ reqs[i].outcome # NoOutcome /\ reqs[i].pc = "done" /\ Len(reqs[i].res) = 1
        /\ ~reqs[j].passed /\ reqs[j].pc = "done" /\ Len(reqs[j].res) = 1

\* C9: a successful contract-token dispense is answered in the shape of a
\* successful native one: amount, symbol and the hash of the transaction.
C9_ContractSuccessEmbedsHash ==
    \A r \in Handled :
        (reqs[r].token = USDC /\ reqs[r].outcome = Submitted)
            => reqs[r].res =
                <<SentWithHash(supportedTokens[USDC].faucetAmount, USDC, Submitted.hash)>>

\* C10: getLastSentTimeStamp for a pair never recorded before, also for an
\* address with no entry at all, returns undefined and raises no error.
C10_NeverRecordedIsUndefined ==
    \A r \in Handled :
        (~\E q \in Handled : q < r /\ SamePair(q, r) /\ reqs[q].passed)
            => reqs[r].lastSent = Undefined

\* ------------------------------------------------------------ the store and its sweep
\* The requests that called setLastSentTimeStamp for the pair.
Records(address, token) ==
    {r \in Handled : reqs[r].passed /\ reqs[r].address = address
                                    /\ reqs[r].token = token}

Latest(rs) == CHOOSE r \in rs : \A q \in rs : q <= r

\* When the sweep last ran (the timer's start, before its first run).
LastSweep == sweepDue - DAY

\* C11: after any sequence of setLastSentTimeStamp calls and sweeps, a pair never
\* recorded has no entry, and a pair whose most recent record was made at T,
\* with no sweep run at or after T + 24h, has the one timestamp T, which
\* getLastSentTimeStamp returns: the last write wins.
C11_LastWriteWins ==
    /\ \A a \in DOMAIN sentMemory : \A t \in DOMAIN sentMemory[a] :
            \E r \in Handled :
                reqs[r].passed /\ reqs[r].address = a /\ reqs[r].token = t
    /\ \A r \in Handled :
            (/\ reqs[r].passed
             /\ LastSweep < reqs[r].at + DAY
             /\ \A q \in Handled : (r < q /\ SamePair(r, q)) => ~reqs[q].passed)
              => /\ Recorded(sentMemory, reqs[r].address, reqs[r].token)
                 /\ getLastSentTimeStamp(sentMemory, reqs[r].address, reqs[r].token)
                        = Num(reqs[r].at)

\* A pair recorded twice whose second record overwrote the first.
C11_Witness ==
    \E i, j \in Handled :
        /\ i < j /\ SamePair(i, j)
        /\ reqs[i].passed /\ reqs[j].passed
        /\ reqs[j].recorded /\ reqs[j].recordedAt = reqs[i].at
        /\ reqs[j].at > reqs[i].at
        /\ getLastSentTimeStamp(sentMemory, reqs[j].address, reqs[j].token)
               = Num(reqs[j].at)

\* C12: right after a run of the sweep callback at time now, getLastSentTimeStamp
\* returns no timestamp <= now - 24h, for every address and token.
C12_SweepEvictsExpired ==
    [][Sweep =>
        \A a \in Addresses, t \in Tokens :
            LET v == getLastSentTimeStamp(sentMemory', a, t)
            IN  v.type = "number" => v.val > now - DAY]_vars

\* The sweep has just run and evicted an entry of age 24h or more.
C12_Witness ==
    /\ LastSweep = now
    /\ \E r \in Handled :
        /\ reqs[r].passed
        /\ reqs[r].at <= now - DAY
        /\ ~Recorded(sentMemory, reqs[r].address, reqs[r].token)

\* C13: a run of the sweep callback keeps every entry younger than 24h with its
\* timestamp, and changes nothing in a store that has no entries.
C13_SweepKeepsYoung ==
    [][Sweep =>
        /\ \A a \in DOMAIN sentMemory : \A t \in DOMAIN sentMemory[a] :
                sentMemory[a][t] > now - DAY =>
                    /\ Recorded(sentMemory', a, t)
                    /\ sentMemory'[a][t] = sentMemory[a][t]
        /\ (\A a \in DOMAIN sentMemory : DOMAIN sentMemory[a] = {}) =>
                sentMemory' = sentMemory]_vars

\* The sweep has just run over an entry recorded in the same millisecond, which
\* replaced an expired one, and the entry is still there.
C13_Witness ==
    /\ LastSweep = now
    /\ \E j \in Handled :
        /\ reqs[j].passed /\ reqs[j].at = now
        /\ reqs[j].recorded /\ reqs[j].recordedAt <= now - DAY
        /\ Recorded(sentMemory, reqs[j].address, reqs[j].token)
        /\ sentMemory[reqs[j].address][reqs[j].token] = now

\* ------------------------------------------------------------ handler and store
\* C14: a request rejected by the cooldown check leaves the store as it was, and
\* the store is written only by the sweep or by a request that passed the check.
C14_RejectedLeavesStore ==
    [][/\ (Len(reqs') > Len(reqs) /\ ~reqs'[Len(reqs')].passed) =>
                sentMemory' = sentMemory
       /\ sentMemory' # sentMemory =>
                \/ sweepDue' # sweepDue
                \/ Len(reqs') > Len(reqs) /\ reqs'[Len(reqs')].passed]_vars

\* A request was rejected inside the window and the pair's entry still holds the
\* timestamp it held when the request arrived.
C14_Witness ==
    \E r \in Handled :
        /\ ~reqs[r].passed
        /\ reqs[r].res = <<AlreadyReceived>>
        /\ reqs[r].recorded /\ reqs[r].recordedAt < reqs[r].at
        /\ Recorded(sentMemory, reqs[r].address, reqs[r].token)
        /\ sentMemory[reqs[r].address][reqs[r].token] = reqs[r].recordedAt

\* The transactions request r has submitted.
Submissions(r) == {k \in 1..Len(chain) : chain[k].req = r}

\* C15: every request submits at most one transaction, exactly one when it
\* passed the cooldown check with a well-formed address and a registered token,
\* also after its submission failed; the submissions are no more than the
\* requests that passed the cooldown check.
C15_AtMostOneSubmission ==
    /\ \A k \in 1..Len(chain) : chain[k].req \in Handled
    /\ \A k \in 1..Len(chain), l \in 1..Len(chain) :
            chain[k].req = chain[l].req => k = l
    /\ \A r \in Handled :
            (reqs[r].passed /\ InRegistry(reqs[r].token) /\ ~Submits(r))
              => ~AddressPattern(reqs[r].address)
    /\ Len(chain) <= Cardinality({r \in Handled : reqs[r].passed})

\* A request whose one submission failed has been answered.
C15_Witness ==
    \E r \in Handled :
        /\ reqs[r].pc = "done"
        /\ reqs[r].outcome = Failed
        /\ Cardinality(Submissions(r)) = 1

\* C16: the timestamp is recorded when the request passes the check, before its
\* transfer settles, and a failed transfer does not take it back: for 24h after
\* a request whose transfer is pending or has failed was accepted, the pair's
\* entry holds the acceptance time, and every later request for the pair
\* arriving in those 24h is answered with the already-received message.
C16_FailedTransferKeepsRecord ==
    \A i \in Handled :
        (reqs[i].passed /\ Submits(i) /\ (i \in Awaiting \/ reqs[i].outcome = Failed))
          => /\ now < reqs[i].at + DAY =>
                    /\ Recorded(sentMemory, reqs[i].address, reqs[i].token)
                    /\ sentMemory[reqs[i].address][reqs[i].token] = reqs[i].at
             /\ \A j \in Handled :
                    (i < j /\ SamePair(i, j) /\ reqs[j].at < reqs[i].at + DAY)
                      => ~reqs[j].passed /\ reqs[j].res = <<AlreadyReceived>>

\* A transfer failed; a request for the same pair then arrived inside the window,
\* after the failure, and was rejected; the entry holds the acceptance time.
C16_Witness ==
    \E i, j \in Handled :
        /\ i < j /\ SamePair(i, j)
        /\ reqs[i].passed /\ reqs[i].outcome = Failed
        /\ i \notin reqs[j].inflight
        /\ reqs[j].at > reqs[i].at /\ reqs[j].at < reqs[i].at + DAY
        /\ reqs[j].res = <<AlreadyReceived>>
        /\ sentMemory[reqs[i].address][reqs[i].token] = reqs[i].at

\* C18: setLastSentTimeStamp(a, t) changes the entry of the pair (a, t) only:
\* every other pair, of the same address or of another, has an entry after the
\* call exactly if it had one before, with the same timestamp.
C18_RecordChangesOnePair ==
    [][(Len(reqs') > Len(reqs) /\ reqs'[Len(reqs')].passed) =>
        \A a \in Addresses, t \in Tokens :
            (a # reqs'[Len(reqs')].address \/ t # reqs'[Len(reqs')].token) =>
                /\ Recorded(sentMemory', a, t) <=> Recorded(sentMemory, a, t)
                /\ Recorded(sentMemory, a, t) => sentMemory'[a][t] = sentMemory[a][t]]_vars

\* An address holds two tokens, the older one with the time of its own record.
C18_Witness ==
    \E i, j \in Handled :
        /\ i < j /\ reqs[i].passed /\ reqs[j].passed
        /\ reqs[i].address = reqs[j].address /\ reqs[i].token # reqs[j].token
        /\ reqs[i].at < reqs[j].at
        /\ Recorded(sentMemory, reqs[i].address, reqs[i].token)
        /\ sentMemory[reqs[i].address][reqs[i].token] = reqs[i].at
        /\ Recorded(sentMemory, reqs[j].address, reqs[j].token)

\* ------------------------------------------------------------ the punctual sweep
\* With a punctual timer the sweep runs at StartTime + k * 24h.  The runs so far
\* at a time >= T: every sweep after a record made at T is one of them.
SweepsSince(T) ==
    Cardinality({k \in 1..((LastSweep - StartTime) \div DAY) : StartTime + k * DAY >= T})

\* C17: with the sweep firing every 24h, an entry recorded at T and not
\* overwritten is gone once two sweeps have run at or after T, and no entry
\* in the store reaches an age of 48h.
C17_EvictedBySecondSweep ==
    \A a \in Addresses, t \in Tokens :
        /\ Recorded(sentMemory, a, t) => now - sentMemory[a][t] < 2 * DAY
        /\ Records(a, t) # {} =>
              (SweepsSince(reqs[Latest(Records(a, t))].at) >= 2
                  => ~Recorded(sentMemory, a, t))

\* An entry recorded in the millisecond of a sweep, before the sweep ran (it
\* replaced an entry that the sweep would have evicted), survived that sweep
\* and is gone after the next.
C17_Witness ==
    \E j \in Handled :
        /\ reqs[j].passed
        /\ reqs[j].recorded /\ reqs[j].recordedAt <= reqs[j].at - DAY
        /\ SweepsSince(reqs[j].at) = 2
        /\ LastSweep = reqs[j].at + DAY
        /\ ~Recorded(sentMemory, reqs[j].address, reqs[j].token)

\* ------------------------------------------------------------ the run without sweep
\* The store after the first k requests, had the sweep never run: the handler's
\* check and record applied to the same requests at the same times.
RECURSIVE NoSweepMemory(_)
NoSweepMemory(k) ==
    IF k = 0 THEN Empty
    ELSE LET mem == NoSweepMemory(k - 1)
             lastSent == getLastSentTimeStamp(mem, reqs[k].address, reqs[k].token)
         IN  RecordOnPass(CooldownPassed(lastSent, reqs[k].at), mem,
                          reqs[k].address, reqs[k].token, reqs[k].at)

\* The cooldown decision on request k in the run without sweep.
NoSweepPassed(k) ==
    CooldownPassed(getLastSentTimeStamp(NoSweepMemory(k - 1),
                                        reqs[k].address, reqs[k].token),
                   reqs[k].at)

\* C19: every request is accepted or rejected by the cooldown check, and
\* answered with the already-received message or not, as it is in the run of
\* the same requests at the same times in which the sweep never fires.
C19_SweepInvisible ==
    \A r \in Handled :
        /\ reqs[r].passed <=> NoSweepPassed(r)
        /\ reqs[r].res = <<AlreadyReceived>> <=> ~NoSweepPassed(r)

\* For every token that names no member of Object.prototype the sweep is
\* invisible: the decisions are those of the run without sweep.
SweepInvisibleOwnTokens ==
    \A r \in Handled :
        reqs[r].token \notin ObjectPrototypeKeys =>
            /\ reqs[r].passed <=> NoSweepPassed(r)
            /\ reqs[r].res = <<AlreadyReceived>> <=> ~NoSweepPassed(r)

\* A request accepted after the sweep evicted its pair's entry, as it is
\* accepted without the sweep.
SweepInvisibleReached ==
    \E r \in Handled :
        /\ reqs[r].token \notin ObjectPrototypeKeys
        /\ Records(reqs[r].address, reqs[r].token) \ {r} # {}
        /\ reqs[r].passed /\ ~reqs[r].recorded
        /\ NoSweepPassed(r)
====
